---- MODULE Spec2Model ----
(***************************************************************************)
(* Online behaviour predictor of realtime_predictions/services/            *)
(* online_predictor.py (class OnlineBehaviorPredictor): category mapper,   *)
(* feature extractor, MinMaxScaler + MultinomialNB online classifier,      *)
(* bounded memory deque, learn / bulk_learn / predict / reset / stats /    *)
(* save / load.                                                            *)
(*                                                                         *)
(* Time is counted in whole hours since a Monday 00:00, so that            *)
(* Timestamp.hour = t % 24 and Timestamp.dayofweek = (t \div 24) % 7.      *)
(***************************************************************************)
EXTENDS Integers, Sequences, FiniteSets, TLC

VARIABLES
    predictor,  \* the OnlineBehaviorPredictor instance of the process
    argv,       \* the arguments its constructor was called with
    cwd,        \* working directory of the process
    disk,       \* the pickled files: a set of [path, blob]
    saves,      \* save_model calls made on their own (not the auto-save of a request)
    last,       \* the last call: operation, arguments, exception or return value
    pushed,     \* history: the observations appended to the memory since the last reset
    learned,    \* history: the learn calls that returned True since the last reset
    action,     \* categorize_action alone: its argument ...
    category,   \* ... and its result
    inflight,   \* the API server: the requests accepted and not yet answered
    batch_predictor, \* batch mode: the RealtimeBehaviorPredictor of api_server.py
    csv,        \* batch mode: the contents of data/firestore_data.csv
    diary_service, \* the OptimizedDiaryService instance: cache, cache_ttl, last_fetch_time
    now         \* time.time() of the process, seconds

\* what only the API servers use
served == <<inflight, batch_predictor, csv>>

\* what only the diary service uses
diary == <<diary_service, now>>

vars == <<predictor, argv, cwd, disk, saves, last, pushed, learned, action, category,
          inflight, batch_predictor, csv, diary_service, now>>

(***************************************************************************)
(* Bounds of the model.                                                    *)
(***************************************************************************)
\* observations appended to the memory since the last reset
MaxPushes == 2
\* successful predictions since the last reset
MaxPredictions == 1
\* save_model calls
MaxSaves == 1
\* observations appended since the last reset where the context window is filled
MaxMemory == 11

(***************************************************************************)
(* Python str: lower(), `in` (substring), and ordering by code point.      *)
(***************************************************************************)
UpperCase == "ABCDEFGHIJKLMNOPQRSTUVWXYZ"
LowerCase == "abcdefghijklmnopqrstuvwxyz"
\* characters in code-point order (those that occur in the model's strings)
CodePoints == " 0123456789" \o UpperCase \o LowerCase

CharAt(s, i) == SubSeq(s, i, i)

char_lower(c) ==
    IF \E i \in 1..Len(UpperCase) : CharAt(UpperCase, i) = c
    THEN CharAt(LowerCase, CHOOSE i \in 1..Len(UpperCase) : CharAt(UpperCase, i) = c)
    ELSE c

RECURSIVE str_lower(_)
str_lower(s) ==
    IF s = "" THEN "" ELSE char_lower(CharAt(s, 1)) \o str_lower(SubSeq(s, 2, Len(s)))

\* Python `sub in s`
str_in(sub, s) ==
    \E i \in 0..(Len(s) - Len(sub)) : SubSeq(s, i + 1, i + Len(sub)) = sub

ord(c) == CHOOSE i \in 1..Len(CodePoints) : CharAt(CodePoints, i) = c

\* Python / numpy `a < b` on str
RECURSIVE str_lt(_, _)
str_lt(a, b) ==
    IF b = "" THEN FALSE
    ELSE IF a = "" THEN TRUE
    ELSE IF CharAt(a, 1) = CharAt(b, 1)
         THEN str_lt(SubSeq(a, 2, Len(a)), SubSeq(b, 2, Len(b)))
         ELSE ord(CharAt(a, 1)) < ord(CharAt(b, 1))

(***************************************************************************)
(* Category mapper.                                                        *)
(***************************************************************************)
\* self.action_categories, in dict insertion order
action_categories == <<
    [category |-> "Sleep",         keywords |-> <<"Sleep", "nap", "sleeping", "rest">>],
    [category |-> "Work",          keywords |-> <<"Work", "work", "job", "office", "meeting">>],
    [category |-> "Study",         keywords |-> <<"Homework", "study", "School", "class", "learning", "research">>],
    [category |-> "Exercise",      keywords |-> <<"Workout", "exercise", "gym", "running", "fitness">>],
    [category |-> "Social",        keywords |-> <<"Friends and family", "social", "friends", "family", "hanging out">>],
    [category |-> "Personal",      keywords |-> <<"Duties", "personal", "chores", "shower", "eating", "cooking">>],
    [category |-> "Entertainment", keywords |-> <<"Waste", "entertainment", "gaming", "watching", "fun">>],
    [category |-> "Mindfulness",   keywords |-> <<"Meditate REAL", "meditation", "mindfulness", "reflection">>],
    [category |-> "Career",        keywords |-> <<"internship 2026", "career", "job search", "networking", "resume">>] >>

\* self.all_classes = list(self.action_categories.keys()) + ['Other']
all_classes ==
    [i \in 1..Len(action_categories) |-> action_categories[i].category] \o <<"Other">>

\* any(keyword.lower() in action_lower for keyword in keywords)
any_keyword_in(keywords, action_lower) ==
    \E k \in 1..Len(keywords) : str_in(str_lower(keywords[k]), action_lower)

RECURSIVE categorize_from(_, _)
categorize_from(action_lower, i) ==
    IF i > Len(action_categories) THEN "Other"
    ELSE IF any_keyword_in(action_categories[i].keywords, action_lower)
         THEN action_categories[i].category
         ELSE categorize_from(action_lower, i + 1)

\* a categorize_action that compares the action as written
categorize_action_as_written(a) == categorize_from(a, 1)

\* categorize_action(action)
categorize_action(a) == categorize_from(str_lower(a), 1)

(***************************************************************************)
(* Observations (journal entries) used as inputs.  timestamp.parses tells  *)
(* whether pd.to_datetime accepts the text, timestamp.at is its value and  *)
(* timestamp.type the Python type that holds it (the API hands in str).    *)
(* action_type is the type of the value under 'action': "str", "int",      *)
(* "nan" (the float NaN a DataFrame fills in), "missing" (no such key).    *)
(***************************************************************************)
obs_sleep    == [timestamp |-> [type |-> "str", parses |-> TRUE, at |-> 22], action |-> "Sleep",
                 action_type |-> "str", duration_minutes |-> 480]
obs_duties   == [timestamp |-> [type |-> "str", parses |-> TRUE, at |-> 30], action |-> "Duties",
                 action_type |-> "str", duration_minutes |-> 30]
obs_walk     == [timestamp |-> [type |-> "str", parses |-> TRUE, at |-> 30], action |-> "walk the dog",
                 action_type |-> "str", duration_minutes |-> 0]
obs_garbled  == [timestamp |-> [type |-> "str", parses |-> FALSE, at |-> 0], action |-> "gym",
                 action_type |-> "str", duration_minutes |-> 45]

\* an entry without the key 'action', and one whose action is the number 42
obs_no_action == [timestamp |-> [type |-> "str", parses |-> TRUE, at |-> 31], action |-> "",
                  action_type |-> "missing", duration_minutes |-> 15]
obs_number   == [timestamp |-> [type |-> "str", parses |-> TRUE, at |-> 32], action |-> "42",
                 action_type |-> "int", duration_minutes |-> 60]

\* an entry whose timestamp is the empty text: pd.to_datetime makes it NaT
\* without raising
obs_undated  == [timestamp |-> [type |-> "empty str", parses |-> TRUE, at |-> 0],
                 action |-> "Workout", action_type |-> "str", duration_minutes |-> 45]

WellFormed == {obs_sleep, obs_duties, obs_walk}
Observations == WellFormed \cup {obs_garbled}

\* categorize_action of the texts the observations carry, computed once
categorized == [a \in {o.action : o \in Observations} |-> categorize_action(a)]

category_of(a) == IF a \in DOMAIN categorized THEN categorized[a] ELSE categorize_action(a)

\* lists of 0..n observations
ListsUpTo(S, n) == UNION {[1..k -> S] : k \in 0..n}

(***************************************************************************)
(* pandas: DataFrame(entries), pd.to_datetime, sort_values('timestamp').   *)
(***************************************************************************)
\* pd.to_datetime(df['timestamp']) raises when one text of the column does not parse
to_datetime_raises(entries) ==
    \E i \in 1..Len(entries) : ~entries[i].timestamp.parses

\* what pd.to_datetime turns into NaT: the empty text, NaN, NaT itself
is_nat(timestamp) == timestamp.type \in {"empty str", "nan", "NaT"}

\* pd.to_datetime(df['timestamp']): every timestamp becomes a pandas Timestamp
\* or NaT
to_datetime(entries) ==
    [i \in 1..Len(entries) |->
        [entries[i] EXCEPT !.timestamp.type = IF is_nat(entries[i].timestamp)
                                              THEN "NaT" ELSE "Timestamp"]] \o << >>

\* a stays in front of e when sorted: na_position='last', and the sort is stable
stays_before(a, e) ==
    \/ is_nat(e.timestamp)
    \/ ~is_nat(a.timestamp) /\ a.timestamp.at <= e.timestamp.at

\* insert e behind every element that stays in front of it
RECURSIVE insert_sorted(_, _)
insert_sorted(sorted, e) ==
    IF sorted = << >> THEN <<e>>
    ELSE IF stays_before(sorted[Len(sorted)], e)
         THEN Append(sorted, e)
         ELSE Append(insert_sorted(SubSeq(sorted, 1, Len(sorted) - 1), e),
                     sorted[Len(sorted)])

\* df.sort_values('timestamp') on fewer than 17 rows (numpy sorts these by insertion)
RECURSIVE sort_values(_)
sort_values(entries) ==
    IF entries = << >> THEN << >>
    ELSE insert_sorted(sort_values(SubSeq(entries, 1, Len(entries) - 1)),
                       entries[Len(entries)])

(***************************************************************************)
(* Feature extractor.                                                      *)
(***************************************************************************)
Flag(b) == IF b THEN 1 ELSE 0

\* an array as an explicit tuple of its values
Row(f) == f \o << >>

\* list(self.memory)[-10:]
ContextWindow == 10

last_n(s, n) == IF Len(s) <= n THEN s ELSE SubSeq(s, Len(s) - n + 1, Len(s))

\* [1 if cat == prev_action else 0 for cat in self.all_classes]
one_hot(prev_action) ==
    Row([i \in 1..Len(all_classes) |-> Flag(all_classes[i] = prev_action)])

\* a membership test that takes the placeholder 'Unknown' for a class
in_all_classes_or_unknown(c) ==
    c = "Unknown" \/ \E i \in 1..Len(all_classes) : all_classes[i] = c

\* prev_action in self.all_classes
in_all_classes(c) == \E i \in 1..Len(all_classes) : all_classes[i] = c

\* float('nan') in a vector of features, which holds no other negative number
NaN == -1

\* np.isnan(X).any()
has_nan(X) == \E i \in 1..Len(X) : X[i] = NaN

\* Timestamp.hour and Timestamp.dayofweek, nan on NaT
hour_of(timestamp) == IF is_nat(timestamp) THEN NaN ELSE timestamp.at % 24
dayofweek_of(timestamp) == IF is_nat(timestamp) THEN NaN ELSE (timestamp.at \div 24) % 7

\* (a - b).total_seconds() / 3600, nan when one of them is NaT
hours_between(a, b) == IF is_nat(a) \/ is_nat(b) THEN NaN ELSE a.at - b.at

features_of(df) ==
    LET last_entry  == df[Len(df)]
        nat         == is_nat(last_entry.timestamp)
        hour        == hour_of(last_entry.timestamp)
        day_of_week == dayofweek_of(last_entry.timestamp)
        duration    == last_entry.duration_minutes
        has_prev    == Len(df) > 1
        prev_entry  == df[Len(df) - 1]
        prev_cat    == IF has_prev
                       THEN category_of(IF prev_entry.action_type = "missing"
                                        THEN "Unknown" ELSE prev_entry.action)
                       ELSE "Unknown"
        prev_action == IF in_all_classes(prev_cat) THEN prev_cat ELSE "Other"
        prev_duration == IF has_prev THEN prev_entry.duration_minutes ELSE 0
        prev_hour   == IF has_prev THEN hour_of(prev_entry.timestamp) ELSE 0
        time_gap    == IF has_prev
                       THEN hours_between(last_entry.timestamp, prev_entry.timestamp)
                       ELSE 0
    IN  << hour, day_of_week, Flag(~nat /\ day_of_week \in {5, 6}),
           Flag(~nat /\ 6 <= hour /\ hour < 12), Flag(~nat /\ 12 <= hour /\ hour < 18),
           Flag(~nat /\ 18 <= hour /\ hour < 22), Flag(~nat /\ (hour >= 22 \/ hour < 6)),
           duration, Flag(duration < 30), Flag(30 <= duration /\ duration < 120),
           Flag(duration >= 120), prev_duration, prev_hour, time_gap >>
        \o one_hot(prev_action)

NoFeatures == << >>

\* 'action' is a column of the DataFrame: some entry has the key
has_action_column(df) == \E i \in 1..Len(df) : df[i].action_type # "missing"

\* action.lower() raises AttributeError unless the action is a str; an entry
\* without the key holds NaN once the column exists
lower_raises(df, i) ==
    \/ df[i].action_type \in {"int", "nan"}
    \/ df[i].action_type = "missing" /\ has_action_column(df)

\* extract_features(entries): raised, or (features, target_action)
extract_features(entries) ==
    LET fail(msg) == [raised |-> msg, features |-> NoFeatures, target_action |-> "",
                      target_is_none |-> TRUE]
    IN  IF entries = << >> THEN fail("No entries provided")
        ELSE IF to_datetime_raises(entries) THEN fail("Unknown datetime string format")
        ELSE LET df == sort_values(entries)
             IN  IF Len(df) > 1 /\ lower_raises(df, Len(df) - 1)
                 THEN fail("AttributeError: no attribute 'lower'")
                 ELSE IF ~has_action_column(df)
                 THEN [raised |-> "", features |-> features_of(df), target_action |-> "",
                       target_is_none |-> TRUE]
                 ELSE IF lower_raises(df, Len(df))
                 THEN fail("AttributeError: no attribute 'lower'")
                 ELSE [raised |-> "", features |-> features_of(df),
                       target_action |-> category_of(df[Len(df)].action),
                       target_is_none |-> FALSE]

(***************************************************************************)
(* sklearn MinMaxScaler(feature_range=(0, 1)).                             *)
(***************************************************************************)
NewScaler == [fitted |-> FALSE, data_min |-> NoFeatures]

\* fit on the one row X: data_max = data_min = X, so the range is 0 in every
\* column, the scale 1 (a zero range is replaced by 1) and min_ = -data_min
scaler_fit(X) == [fitted |-> TRUE, data_min |-> X]

\* X * scale_ + min_
scaler_transform(scaler, X) == Row([i \in 1..Len(X) |-> X[i] - scaler.data_min[i]])

Abs(x) == IF x < 0 THEN 0 - x ELSE x

\* np.abs
np_abs(X) == Row([i \in 1..Len(X) |-> Abs(X[i])])

(***************************************************************************)
(* sklearn MultinomialNB (alpha = 1, fit_prior = True), partial_fit with   *)
(* the full class list.  Logarithms are fixed-point (1024 units per        *)
(* doubling, linear between powers of two); log(0) is -inf.                *)
(***************************************************************************)
RECURSIVE floor_log2(_)
floor_log2(n) == IF n < 2 THEN 0 ELSE 1 + floor_log2(n \div 2)

np_log(n) ==
    LET k == floor_log2(n)
    IN  1024 * k + (1024 * (n - 2^k)) \div (2^k)

RECURSIVE np_sum(_)
np_sum(v) == IF v = << >> THEN 0 ELSE v[1] + np_sum(Tail(v))

RECURSIVE insert_label(_, _)
insert_label(sorted, c) ==
    IF sorted = << >> THEN <<c>>
    ELSE IF sorted[Len(sorted)] = c THEN sorted
    ELSE IF str_lt(sorted[Len(sorted)], c) THEN Append(sorted, c)
    ELSE Append(insert_label(SubSeq(sorted, 1, Len(sorted) - 1), c), sorted[Len(sorted)])

\* the labels kept in the order given
np_unique_as_given(labels) == labels

\* np.unique(classes): the distinct labels in ascending order
RECURSIVE np_unique(_)
np_unique(labels) ==
    IF labels = << >> THEN << >>
    ELSE insert_label(np_unique(SubSeq(labels, 1, Len(labels) - 1)), labels[Len(labels)])

\* np.unique(self.all_classes), computed once
unique_all_classes == np_unique(all_classes)

unique_labels(classes) ==
    IF classes = all_classes THEN unique_all_classes ELSE np_unique(classes)

\* MultinomialNB(): no classes_, no counts
NewModel == [classes_ |-> << >>, class_count_ |-> << >>, feature_count_ |-> << >>]

\* model.partial_fit(X, [y], classes=classes)
partial_fit(model, X, y, classes) ==
    LET first   == model.classes_ = << >>
        labels  == IF first THEN unique_labels(classes) ELSE model.classes_
        cc      == IF first THEN Row([j \in 1..Len(labels) |-> 0]) ELSE model.class_count_
        fc      == IF first THEN Row([j \in 1..Len(labels) |-> Row([i \in 1..Len(X) |-> 0])])
                   ELSE model.feature_count_
        row     == CHOOSE j \in 1..Len(labels) : labels[j] = y
    IN  [classes_       |-> labels,
         class_count_   |-> [cc EXCEPT ![row] = cc[row] + 1],
         feature_count_ |-> [fc EXCEPT ![row] =
                                Row([i \in 1..Len(X) |-> fc[row][i] + X[i]])]]

\* class_log_prior_[j] + X . feature_log_prob_[j]
joint_log_likelihood(model, X) ==
    LET total == np_sum(model.class_count_)
        jll(j) ==
            LET fc         == model.feature_count_[j]
                log_smooth == np_log(np_sum(fc) + Len(fc))
            IN  (np_log(model.class_count_[j]) - np_log(total))
                + np_sum(Row([i \in 1..Len(X) |->
                                IF X[i] = 0 THEN 0
                                ELSE X[i] * (np_log(fc[i] + 1) - log_smooth)]))
    IN  Row([j \in 1..Len(model.classes_) |->
                IF model.class_count_[j] = 0
                THEN [neg_inf |-> TRUE, log |-> 0]
                ELSE [neg_inf |-> FALSE, log |-> jll(j)]])

\* a < b on log-likelihoods / probabilities
lt(a, b) == IF b.neg_inf THEN FALSE ELSE IF a.neg_inf THEN TRUE ELSE a.log < b.log

\* np.argmax: first index of the maximum
argmax(v) == CHOOSE j \in 1..Len(v) :
                /\ \A k \in 1..Len(v) : ~lt(v[j], v[k])
                /\ \A k \in 1..(j - 1) : lt(v[k], v[j])

\* exp(jll - logsumexp(jll)) is increasing in jll: a probability is kept as
\* its log-likelihood, -inf standing for probability 0
predict_proba(model, X) == joint_log_likelihood(model, X)

\* sorted(pairs, key=lambda x: x[1], reverse=True): descending, stable
RECURSIVE insert_descending(_, _)
insert_descending(sorted, e) ==
    IF sorted = << >> THEN <<e>>
    ELSE IF ~lt(sorted[Len(sorted)][2], e[2]) THEN Append(sorted, e)
    ELSE Append(insert_descending(SubSeq(sorted, 1, Len(sorted) - 1), e),
                sorted[Len(sorted)])

RECURSIVE sorted_reverse(_)
sorted_reverse(pairs) ==
    IF pairs = << >> THEN << >>
    ELSE insert_descending(sorted_reverse(SubSeq(pairs, 1, Len(pairs) - 1)),
                           pairs[Len(pairs)])

\* [:3]
TopK == 3

first_n(s, n) == IF Len(s) <= n THEN s ELSE SubSeq(s, 1, n)

\* top predictions among the classes of non-zero probability only
top_predictions_of_seen(classes, probabilities) ==
    first_n(sorted_reverse(SelectSeq(Row([j \in 1..Len(classes) |->
                                             <<classes[j], probabilities[j]>>]),
                                     LAMBDA pair : ~pair[2].neg_inf)),
            TopK)

\* sorted(zip(classes, probabilities), key=lambda x: x[1], reverse=True)[:3]
top_predictions_of(classes, probabilities) ==
    first_n(sorted_reverse(Row([j \in 1..Len(classes) |->
                                      <<classes[j], probabilities[j]>>])),
            TopK)

(***************************************************************************)
(* OnlineBehaviorPredictor.                                                *)
(***************************************************************************)
\* __init__ before load_model()
new_predictor(model_path, memory_size) ==
    [model_path            |-> model_path,
     memory_size           |-> memory_size,
     model                 |-> NewModel,
     model_trained         |-> FALSE,
     scaler                |-> NewScaler,
     memory                |-> << >>,
     total_entries_learned |-> 0,
     predictions_made      |-> 0]

\* an append that drops the new entry when the deque is full
deque_append_refusing(memory, maxlen, entry) ==
    IF Len(memory) >= maxlen THEN memory ELSE Append(memory, entry)

\* deque(maxlen=memory_size).append(entry)
deque_append(memory, maxlen, entry) == last_n(Append(memory, entry), maxlen)

\* the try block of learn_from_entry: the predictor it leaves, the exception
\* it raised (if any) and the value it returned.  The scaler accepts NaN
\* (fit and transform); partial_fit raises on it
learn_try(self, entry) ==
    LET memory   == deque_append(self.memory, self.memory_size, entry)
        pushed_  == [self EXCEPT !.memory = memory]
        fx       == extract_features(last_n(memory, ContextWindow))
        scaler   == IF self.total_entries_learned = 0
                    THEN scaler_fit(fx.features) ELSE self.scaler
        scaled   == np_abs(scaler_transform(scaler, fx.features))
    IN  IF Len(memory) < 1 THEN [self |-> pushed_, raised |-> "", returned |-> FALSE]
        ELSE IF fx.raised # "" THEN [self |-> pushed_, raised |-> fx.raised, returned |-> FALSE]
        ELSE IF fx.target_is_none THEN [self |-> pushed_, raised |-> "", returned |-> FALSE]
        ELSE IF ~scaler.fitted
        THEN [self |-> pushed_, raised |-> "NotFittedError", returned |-> FALSE]
        ELSE IF has_nan(fx.features)
        THEN [self |-> [pushed_ EXCEPT !.scaler = scaler],
              raised |-> "ValueError: Input X contains NaN", returned |-> FALSE]
        ELSE [self |-> [pushed_ EXCEPT
                          !.scaler = scaler,
                          !.model = partial_fit(self.model, scaled, fx.target_action,
                                                all_classes),
                          !.model_trained = TRUE,
                          !.total_entries_learned = self.total_entries_learned + 1],
              raised |-> "", returned |-> TRUE]

\* except Exception: return False (what raised has returned nothing yet, and
\* learn_try holds FALSE for it)
except_return_false(r) == [r EXCEPT !.raised = ""]

\* a learn that sets the trained flag whatever becomes of the entry
learn_flagging_first(self, entry) ==
    [except_return_false(learn_try(self, entry)) EXCEPT !.self.model_trained = TRUE]

\* a learn that forgets to count the entry it learned
learn_not_counting(self, entry) ==
    [except_return_false(learn_try(self, entry)) EXCEPT
        !.self.total_entries_learned = self.total_entries_learned]

\* a learn without the except clause
learn_uncaught(self, entry) == learn_try(self, entry)

\* a learn that fits the scaler on every call
learn_refitting(self, entry) ==
    LET r == except_return_false(learn_try([self EXCEPT !.total_entries_learned = 0],
                                           entry))
    IN  [r EXCEPT !.self.total_entries_learned =
                        self.total_entries_learned + Flag(r.returned)]

\* learn_from_entry(entry): the predictor afterwards and the returned flag
learn_from_entry(self, entry) == except_return_false(learn_try(self, entry))

\* for entry in sorted_entries: if self.learn_from_entry(entry): learned_count += 1
RECURSIVE learn_each(_, _, _)
\* the rest of the loop, once learn_from_entry has returned r
learn_rest(r, entries, learned_count) ==
    learn_each(r.self, Tail(entries), learned_count + Flag(r.returned))

learn_each(self, entries, learned_count) ==
    IF entries = << >> THEN [self |-> self, returned |-> learned_count]
    ELSE learn_rest(learn_from_entry(self, Head(entries)), entries, learned_count)

\* return learned_count
bulk_returns(r) == [self |-> r.self, raised |-> "", returned |-> r.returned]

\* bulk_learn(entries)
bulk_learn(self, entries) ==
    IF entries = << >>
    THEN [self |-> self, raised |-> "KeyError: 'timestamp'", returned |-> 0]
    ELSE IF to_datetime_raises(entries)
    THEN [self |-> self, raised |-> "Unknown datetime string format", returned |-> 0]
    ELSE bulk_returns(learn_each(self, sort_values(to_datetime(entries)), 0))

NoPrediction ==
    [predicted_action |-> "", confidence |-> [neg_inf |-> TRUE, log |-> 0],
     top_predictions |-> << >>, total_learned |-> 0, predictions_made |-> 0]

\* predict_next_entry on a trained model; given = FALSE stands for
\* recent_entries=None
predict_trained(self, given, recent_entries) ==
    LET fail(msg) == [self |-> self, raised |-> msg, returned |-> NoPrediction]
        window    == IF given THEN recent_entries ELSE last_n(self.memory, ContextWindow)
        fx        == extract_features(window)
        scaled    == np_abs(scaler_transform(self.scaler, fx.features))
        jll       == joint_log_likelihood(self.model, scaled)
        probabilities == predict_proba(self.model, scaled)
        made      == self.predictions_made + 1
    IN  IF ~given /\ Len(self.memory) = 0
        THEN fail("No entries in memory to base prediction on")
        ELSE IF fx.raised # "" THEN fail(fx.raised)
        ELSE IF ~self.scaler.fitted THEN fail("NotFittedError")
        ELSE IF has_nan(fx.features) THEN fail("ValueError: Input X contains NaN")
        ELSE [self     |-> [self EXCEPT !.predictions_made = made],
              raised   |-> "",
              returned |-> [predicted_action |-> self.model.classes_[argmax(jll)],
                            confidence       |-> probabilities[argmax(probabilities)],
                            top_predictions  |-> top_predictions_of(self.model.classes_,
                                                                    probabilities),
                            total_learned    |-> self.total_entries_learned,
                            predictions_made |-> made]]

\* a predict that counts the call before it looks at the trained flag
predict_counting_refused(self, given, recent_entries) ==
    IF ~self.model_trained
    THEN [self     |-> [self EXCEPT !.predictions_made = self.predictions_made + 1],
          raised   |-> "Model not trained yet!",
          returned |-> NoPrediction]
    ELSE predict_trained(self, given, recent_entries)

\* a predict that goes to the memory whatever window it is handed
predict_from_memory(self, given, recent_entries) ==
    IF ~self.model_trained
    THEN [self |-> self, raised |-> "Model not trained yet!", returned |-> NoPrediction]
    ELSE predict_trained(self, FALSE, recent_entries)

\* a predict that reports the count of predictions as it was before the call
predict_reporting_old_count(self, given, recent_entries) ==
    IF ~self.model_trained
    THEN [self |-> self, raised |-> "Model not trained yet!", returned |-> NoPrediction]
    ELSE [predict_trained(self, given, recent_entries) EXCEPT
            !.returned.predictions_made = self.predictions_made]

\* predict_next_entry(recent_entries)
predict_next_entry(self, given, recent_entries) ==
    IF ~self.model_trained
    THEN [self |-> self, raised |-> "Model not trained yet!", returned |-> NoPrediction]
    ELSE predict_trained(self, given, recent_entries)

\* get_stats()
get_stats(self) ==
    [model_trained         |-> self.model_trained,
     total_entries_learned |-> self.total_entries_learned,
     predictions_made      |-> self.predictions_made,
     memory_size           |-> Len(self.memory),
     max_memory_size       |-> self.memory_size,
     action_categories     |-> all_classes]

\* a reset that leaves the memory as it is
reset_keeping_memory(self) ==
    [self EXCEPT !.model = NewModel,
                 !.model_trained = FALSE,
                 !.total_entries_learned = 0,
                 !.predictions_made = 0,
                 !.scaler = NewScaler]

\* a reset that leaves the trained flag as it is
reset_keeping_flag(self) ==
    [self EXCEPT !.model = NewModel,
                 !.memory = << >>,
                 !.total_entries_learned = 0,
                 !.predictions_made = 0,
                 !.scaler = NewScaler]

\* reset()
reset(self) ==
    [self EXCEPT !.model = NewModel,
                 !.model_trained = FALSE,
                 !.memory = << >>,
                 !.total_entries_learned = 0,
                 !.predictions_made = 0,
                 !.scaler = NewScaler]

(***************************************************************************)
(* Persistence: os.path, save_model, load_model, the constructor.          *)
(***************************************************************************)
\* os.path.dirname(os.path.dirname(os.path.abspath(__file__)))
PackageDir == "/app/realtime_predictions"

DefaultModelPath == "models/online_behavior_model.pkl"

isabs(path) == Len(path) > 0 /\ CharAt(path, 1) = "/"

path_join(a, b) == IF isabs(b) THEN b ELSE a \o "/" \o b

RECURSIVE dirname(_)
dirname(path) ==
    IF path = "" THEN ""
    ELSE IF CharAt(path, Len(path)) = "/" THEN SubSeq(path, 1, Len(path) - 1)
    ELSE dirname(SubSeq(path, 1, Len(path) - 1))

\* os.path.abspath of a path used by a process whose working directory is dir
RECURSIVE abspath(_, _)
abspath(dir, path) ==
    IF isabs(path) THEN path
    ELSE IF Len(path) >= 3 /\ SubSeq(path, 1, 3) = "../"
         THEN abspath(dirname(dir), SubSeq(path, 4, Len(path)))
         ELSE dir \o "/" \o path

exists(files, dir, path) == \E f \in files : f.path = abspath(dir, path)

read(files, dir, path) == CHOOSE f \in files : f.path = abspath(dir, path)

\* the file save_model writes for an engine constructed with model_path
saved_path(model_path) ==
    IF isabs(model_path) THEN model_path ELSE path_join(PackageDir, model_path)

\* save_model(): the predictor afterwards (model_path made absolute) and the files
save_model(self, dir, files, history) ==
    LET model_path == IF isabs(self.model_path) THEN self.model_path
                      ELSE path_join(PackageDir, self.model_path)
        model_data == [model                 |-> self.model,
                       model_trained         |-> self.model_trained,
                       scaler                |-> self.scaler,
                       memory                |-> self.memory,
                       total_entries_learned |-> self.total_entries_learned,
                       predictions_made      |-> self.predictions_made]
        file       == [path |-> abspath(dir, model_path), blob |-> model_data,
                       history |-> history]
    IN  [self  |-> [self EXCEPT !.model_path = model_path],
         files |-> {f \in files : f.path # file.path} \cup {file}]

possible_paths(self) ==
    << self.model_path,
       "models/online_behavior_model.pkl",
       "../models/online_behavior_model.pkl",
       path_join(PackageDir, "models/online_behavior_model.pkl") >>

\* load_model(): the first of possible_paths that exists
load_model(self, dir, files) ==
    LET paths == possible_paths(self)
        found == {i \in 1..Len(paths) : exists(files, dir, paths[i])}
        path  == paths[CHOOSE i \in found : \A k \in found : i <= k]
        file  == read(files, dir, path)
        data  == file.blob
    IN  IF found = {} THEN [self |-> self, returned |-> FALSE,
                            history |-> [pushed |-> << >>, learned |-> 0]]
        ELSE [self |-> [self EXCEPT
                          !.model = data.model,
                          !.model_trained = data.model_trained,
                          !.scaler = data.scaler,
                          !.memory = last_n(data.memory, self.memory_size),
                          !.total_entries_learned = data.total_entries_learned,
                          !.predictions_made = data.predictions_made],
              returned |-> TRUE,
              history |-> file.history]

\* OnlineBehaviorPredictor(model_path, memory_size)
construct(model_path, memory_size, dir, files) ==
    load_model(new_predictor(model_path, memory_size), dir, files)

\* model_path arguments and working directories of a process
ModelPaths == {DefaultModelPath, "/data/behavior.pkl", "custom/behavior.pkl"}
WorkingDirs == {PackageDir, "/app"}
MemorySizes == {1, 2}
\* memory_size: int = 1000
DefaultMemorySize == 1000

(***************************************************************************)
(* The calls.                                                              *)
(***************************************************************************)
(***************************************************************************)
(* src/services/optimized_diary_service.py: OptimizedDiaryService keeps    *)
(* the entries it has read from Firestore in a dictionary, one list per    *)
(* (user, days) key, and one last_fetch_time for the whole dictionary.     *)
(***************************************************************************)
\* seconds a fetch stays usable
cache_ttl == 300

\* time.time() when the service is constructed, and the seconds that pass
\* between two calls
Started == 1000
Pause == 150
MaxPauses == 4

UserIds == {"u1", "u2"}
DaysAsked == {1, 4}
MaxEntriesAsked == {1, 2}

\* the SpecificTimes documents of a user: their id and how many days old
\* their date document is; the newest first, as the final sort leaves them
Firestore(user_id) ==
    IF user_id = "u1"
    THEN <<[time_id |-> 1, age |-> 0], [time_id |-> 2, age |-> 2]>>
    ELSE <<[time_id |-> 3, age |-> 1]>>

SelectSeqAge(docs, days) == SelectSeq(docs, LAMBDA d : d.age <= days)

\* the entries of the documents inside the date range; read_at is history:
\* the time at which the entry was read from Firestore
stream(user_id, days, time) ==
    [i \in DOMAIN SelectSeqAge(Firestore(user_id), days) |->
        [time_id |-> SelectSeqAge(Firestore(user_id), days)[i].time_id,
         read_at |-> time]]

new_diary_service == [cache |-> << >>, cache_ttl |-> cache_ttl, last_fetch_time |-> 0]

get_cache_key(user_id, days) == <<user_id, days>>

is_cache_valid(self, time) == time - self.last_fetch_time < self.cache_ttl

cache_put(cache, cache_key, sorted_entries) ==
    [k \in DOMAIN cache \cup {cache_key} |->
        IF k = cache_key THEN sorted_entries ELSE cache[k]]

fetch_fresh(self, cache_key, sorted_entries, time) ==
    [self |-> [self EXCEPT !.cache = cache_put(self.cache, cache_key, sorted_entries),
                           !.last_fetch_time = time],
     returned |-> sorted_entries, cached |-> FALSE]

get_diary_entries_optimized(self, user_id, days, max_entries, time) ==
    IF get_cache_key(user_id, days) \in DOMAIN self.cache /\ is_cache_valid(self, time)
    THEN [self |-> self,
          returned |-> first_n(self.cache[get_cache_key(user_id, days)], max_entries),
          cached |-> TRUE]
    ELSE fetch_fresh(self, get_cache_key(user_id, days),
                     first_n(stream(user_id, days, time), max_entries), time)

clear_cache(self) == [self EXCEPT !.cache = << >>, !.last_fetch_time = 0]

Call(op, entries, given, raised, returned) ==
    [op |-> op, entries |-> entries, given |-> given, raised |-> raised,
     returned |-> returned]

Init ==
    /\ cwd \in WorkingDirs
    /\ predictor \in {new_predictor(p, n) : p \in ModelPaths, n \in MemorySizes}
    /\ argv = [model_path |-> predictor.model_path, memory_size |-> predictor.memory_size]
    /\ disk = {}
    /\ saves = 0
    /\ last = Call("__init__", << >>, FALSE, "", FALSE)
    /\ diary_service = new_diary_service
    /\ now = Started
    /\ pushed = << >>
    /\ learned = 0
    /\ action = ""
    /\ category = ""
    /\ inflight = << >>
    /\ batch_predictor = "None"
    /\ csv = << >>

LearnCall(entry) ==
    /\ \E r \in {learn_from_entry(predictor, entry)} :
           /\ predictor' = r.self
           /\ last' = Call("learn_from_entry", <<entry>>, TRUE, r.raised, r.returned)
           /\ learned' = learned + Flag(r.returned)
    /\ pushed' = Append(pushed, entry)
    /\ UNCHANGED <<diary, served, argv, cwd, disk, saves, action, category>>

Learn(entry) ==
    /\ Len(pushed) < MaxPushes
    /\ LearnCall(entry)

\* a learn in the process that fills its context window
LearnMore(entry) ==
    /\ Len(pushed) < MaxMemory
    /\ LearnCall(entry)

BulkLearn(entries) ==
    /\ Len(pushed) + Len(entries) <= MaxPushes
    /\ \E r \in {bulk_learn(predictor, entries)} :
           /\ predictor' = r.self
           /\ last' = Call("bulk_learn", entries, TRUE, r.raised, r.returned)
           /\ pushed' = IF r.raised = ""
                        THEN pushed \o sort_values(to_datetime(entries))
                        ELSE pushed
           /\ learned' = learned + r.returned
    /\ UNCHANGED <<diary, served, argv, cwd, disk, saves, action, category>>

Predict(given, recent_entries) ==
    /\ predictor.predictions_made < MaxPredictions
    /\ \E r \in {predict_next_entry(predictor, given, recent_entries)} :
           /\ predictor' = r.self
           /\ last' = Call("predict_next_entry", recent_entries, given, r.raised,
                           r.returned)
    /\ UNCHANGED <<diary, served, argv, cwd, disk, saves, pushed, learned, action, category>>

\* a reset that also removes the blob the engine saves to
ResetRemovingBlob ==
    /\ predictor' = reset(predictor)
    /\ disk' = {f \in disk : f.path # abspath(cwd, saved_path(predictor.model_path))}
    /\ last' = Call("reset", << >>, FALSE, "", FALSE)
    /\ pushed' = << >>
    /\ learned' = 0
    /\ UNCHANGED <<diary, served, argv, cwd, saves, action, category>>

Reset ==
    /\ predictor' = reset(predictor)
    /\ last' = Call("reset", << >>, FALSE, "", FALSE)
    /\ pushed' = << >>
    /\ learned' = 0
    /\ UNCHANGED <<diary, served, argv, cwd, disk, saves, action, category>>

Stats ==
    /\ last' = Call("get_stats", << >>, FALSE, "", get_stats(predictor))
    /\ UNCHANGED <<diary, served, argv, predictor, cwd, disk, saves, pushed, learned, action, category>>

Save ==
    /\ saves < MaxSaves
    /\ \E r \in {save_model(predictor, cwd, disk, [pushed |-> pushed, learned |-> learned])
                    } :
           /\ predictor' = r.self
           /\ disk' = r.files
    /\ saves' = saves + 1
    /\ last' = Call("save_model", << >>, FALSE, "", FALSE)
    /\ UNCHANGED <<diary, served, argv, cwd, pushed, learned, action, category>>

\* the process ends and a new one constructs its predictor
Restart(model_path, memory_size, dir) ==
    /\ \E r \in {construct(model_path, memory_size, dir, disk)} :
           /\ predictor' = r.self
           /\ pushed' = r.history.pushed
           /\ learned' = r.history.learned
           /\ last' = Call("__init__", << >>, FALSE, "", r.returned)
    /\ argv' = [model_path |-> model_path, memory_size |-> memory_size]
    /\ cwd' = dir
    /\ UNCHANGED <<diary, served, disk, saves, action, category>>

\* lists handed to bulk_learn: the orderings of the sets of observations
Orderings(S) == {s \in UNION {[1..k -> S] : k \in 0..Cardinality(S)} :
                    \A i, j \in DOMAIN s : i # j => s[i] # s[j]}
BulkInputs == {s \in Orderings(Observations) : Len(s) <= MaxPushes}

\* windows handed to predict
RecentEntries == {<< >>, <<obs_duties>>, <<obs_sleep, obs_duties>>, <<obs_garbled>>}

\* the online engine: learn, bulk_learn, predict, reset, stats
NextOnline ==
    \/ \E entry \in Observations : Learn(entry)
    \/ \E entries \in BulkInputs : BulkLearn(entries)
    \/ Predict(FALSE, << >>)
    \/ \E recent_entries \in RecentEntries : Predict(TRUE, recent_entries)
    \/ Reset
    \/ Stats

\* one process, started in the package directory with the default model path
InitOnline ==
    /\ Init
    /\ cwd = PackageDir
    /\ predictor.model_path = DefaultModelPath

SpecOnline == InitOnline /\ [][NextOnline]_vars

\* processes started with any model path and working directory, one after
\* the other, sharing the disk
NextPaths ==
    \/ Learn(obs_sleep)
    \/ Predict(TRUE, <<obs_duties>>)
    \/ Save
    \/ \E model_path \in ModelPaths, dir \in WorkingDirs :
            Restart(model_path, argv.memory_size, dir)

InitPaths ==
    /\ Init
    /\ \A n \in MemorySizes : n <= predictor.memory_size

SpecPaths == InitPaths /\ [][NextPaths]_vars

\* learn on every kind of entry: well-formed, unparseable timestamp, empty
\* timestamp, no action, action that is not a string
LearnInputs == Observations \cup {obs_undated, obs_no_action, obs_number}

NextLearn ==
    \/ \E entry \in LearnInputs : Learn(entry)
    \/ Predict(FALSE, << >>)
    \/ Reset
    \/ Stats

SpecLearn == InitOnline /\ [][NextLearn]_vars

\* the engine with persistence and restarts of the process, on fewer inputs
FewObservations == {obs_sleep, obs_garbled}

\* one process after the other, each started in the package directory with
\* the same absolute model path and the larger capacity
InitFew ==
    /\ Init
    /\ cwd = PackageDir
    /\ isabs(predictor.model_path)
    /\ \A n \in MemorySizes : n <= predictor.memory_size

Next ==
    \/ \E entry \in FewObservations : Learn(entry)
    \/ \E entries \in {s \in BulkInputs : \A i \in DOMAIN s : s[i] \in FewObservations} :
            BulkLearn(entries)
    \/ Predict(FALSE, << >>)
    \/ Predict(TRUE, <<obs_duties>>)
    \/ Reset
    \/ Stats
    \/ Save
    \/ Restart(argv.model_path, argv.memory_size, cwd)

Spec == InitFew /\ [][Next]_vars

\* the same process after process, with what the scaler goes through: learn,
\* bulk_learn, predict from the memory, reset, save and restart
NextScaler ==
    \/ Learn(obs_sleep)
    \/ \E entries \in {<<obs_duties>>, <<obs_duties, obs_sleep>>} : BulkLearn(entries)
    \/ Predict(FALSE, << >>)
    \/ Reset
    \/ Save
    \/ Restart(argv.model_path, argv.memory_size, cwd)

SpecScaler == InitFew /\ [][NextScaler]_vars

\* what a process of the default capacity leaves on disk when it has
\* learned one entry and saved
SavedAfterOneLearn ==
    save_model(learn_from_entry(new_predictor("/data/behavior.pkl", DefaultMemorySize),
                                obs_sleep).self,
               PackageDir, {}, [pushed |-> <<obs_sleep>>, learned |-> 1]).files

\* one process of the default capacity, fed until its memory holds more than
\* the context window; or one of capacity 0 that has loaded the trained model
\* another left on disk, and holds no memory
InitWindow ==
    /\ cwd = PackageDir
    /\ saves = 0
    /\ last = Call("__init__", << >>, FALSE, "", FALSE)
    /\ diary_service = new_diary_service
    /\ now = Started
    /\ action = ""
    /\ category = ""
    /\ inflight = << >>
    /\ batch_predictor = "None"
    /\ csv = << >>
    /\ \/ /\ disk = {}
          /\ predictor = new_predictor("/data/behavior.pkl", DefaultMemorySize)
          /\ pushed = << >>
          /\ learned = 0
       \/ /\ disk = SavedAfterOneLearn
          /\ \E r \in {construct("/data/behavior.pkl", 0, cwd, disk)} :
                 /\ predictor = r.self
                 /\ pushed = r.history.pushed
                 /\ learned = r.history.learned
    /\ argv = [model_path |-> predictor.model_path, memory_size |-> predictor.memory_size]

NextWindow ==
    \/ Learn(obs_duties)
    \/ LearnMore(obs_sleep)
    \/ Predict(FALSE, << >>)
    \/ \E recent_entries \in {<< >>, <<obs_duties>>} : Predict(TRUE, recent_entries)
    \/ Reset

SpecWindow == InitWindow /\ [][NextWindow]_vars

\* capacities of the memory, the deque that keeps nothing included
Capacities == {0} \cup MemorySizes

\* one process after the other on the same model path, each with a capacity
\* of its own; the first finds no blob or the one of SavedAfterOneLearn
InitCapacity ==
    /\ cwd = PackageDir
    /\ saves = 0
    /\ last = Call("__init__", << >>, FALSE, "", FALSE)
    /\ diary_service = new_diary_service
    /\ now = Started
    /\ action = ""
    /\ category = ""
    /\ inflight = << >>
    /\ batch_predictor = "None"
    /\ csv = << >>
    /\ disk \in {{}, SavedAfterOneLearn}
    /\ \E memory_size \in Capacities :
          \E r \in {construct("/data/behavior.pkl", memory_size, cwd, disk)} :
              /\ predictor = r.self
              /\ pushed = r.history.pushed
              /\ learned = r.history.learned
    /\ argv = [model_path |-> predictor.model_path, memory_size |-> predictor.memory_size]

NextCapacity ==
    \/ Learn(obs_sleep)
    \/ BulkLearn(<<obs_duties>>)
    \/ Predict(FALSE, << >>)
    \/ Reset
    \/ Save
    \/ \E memory_size \in Capacities : Restart(argv.model_path, memory_size, cwd)

SpecCapacity == InitCapacity /\ [][NextCapacity]_vars

\* the diary service alone: calls for any user, range and limit, the cache
\* cleared, and time passing between the calls
GetDiaryEntries(user_id, days, max_entries) ==
    \E r \in {get_diary_entries_optimized(diary_service, user_id, days, max_entries, now)} :
        /\ diary_service' = r.self
        /\ last' = [op |-> "get_diary_entries_optimized", user_id |-> user_id,
                    days |-> days, max_entries |-> max_entries, at |-> now,
                    cached |-> r.cached, returned |-> r.returned]
        /\ UNCHANGED <<now, predictor, argv, cwd, disk, saves, pushed, learned, action,
                       category, served>>

ClearCache ==
    /\ diary_service' = clear_cache(diary_service)
    /\ last' = [op |-> "clear_cache", at |-> now]
    /\ UNCHANGED <<now, predictor, argv, cwd, disk, saves, pushed, learned, action,
                   category, served>>

TimePasses ==
    /\ now < Started + MaxPauses * Pause
    /\ now' = now + Pause
    /\ UNCHANGED <<diary_service, predictor, argv, cwd, disk, saves, last, pushed, learned,
                   action, category, served>>

NextDiary ==
    \/ \E user_id \in UserIds, days \in DaysAsked, max_entries \in MaxEntriesAsked :
            GetDiaryEntries(user_id, days, max_entries)
    \/ ClearCache
    \/ TimePasses

SpecDiary == InitOnline /\ [][NextDiary]_vars

(***************************************************************************)
(* The API server of online_api_server.py: one uvicorn process, one event  *)
(* loop, the handlers of /learn, /learn/bulk, /predict and /reset taken    *)
(* statement by statement on the one global predictor.                     *)
(***************************************************************************)
\* requests accepted and not yet answered
MaxRequests == 2

\* a request as its handler holds it: the next statement (pc), whether the
\* handler has begun, its locals, and the predictor it found when it began
Request(op, pc, entries) ==
    [op |-> op, pc |-> pc, entries |-> entries, started |-> FALSE,
     todo |-> IF op = "/learn" THEN entries ELSE << >>,
     fx |-> extract_features(<< >>), learned_count |-> 0, before |-> << >>]

Requests ==
    {Request("/learn", "append", <<entry>>) : entry \in {obs_sleep, obs_garbled}}
    \cup {Request("/learn/bulk", "sort", <<obs_duties, obs_sleep>>)}
    \cup {Request("/predict", "check", recent_entries) :
            recent_entries \in {<< >>, <<obs_duties>>}}
    \cup {Request("/reset", "reset", << >>)}

\* the handlers that have begun and not returned
running(tasks) == {i \in DOMAIN tasks : tasks[i].started}

\* handlers run by a pool of threads, as 'def' endpoints would be
may_run_threaded(tasks, i) == TRUE

\* every endpoint is an 'async def' without an await: the event loop runs
\* the coroutine it began to its return before it begins another
may_run(tasks, i) == running(tasks) \subseteq {i}

\* the observations the accepted requests may still append
RECURSIVE owed(_)
owed(tasks) ==
    IF tasks = << >> THEN 0
    ELSE owed(Tail(tasks))
         + (IF Head(tasks).op = "/learn/bulk" /\ ~Head(tasks).started
            THEN Len(Head(tasks).entries) ELSE Len(Head(tasks).todo))

RemoveAt(tasks, i) == SubSeq(tasks, 1, i - 1) \o SubSeq(tasks, i + 1, Len(tasks))

\* the handler of inflight[i] goes on to statement pc
goes(i, pc) ==
    [inflight EXCEPT ![i].pc = pc, ![i].started = TRUE,
                     ![i].before = IF inflight[i].started THEN @ ELSE predictor]

\* the handler of inflight[i] returns or raises its HTTP error
Respond(i, raised, returned) ==
    /\ inflight' = RemoveAt(inflight, i)
    /\ last' = Call(inflight[i].op, inflight[i].entries, inflight[i].entries # << >>,
                    raised, returned)

Accept(request) ==
    /\ Len(inflight) < MaxRequests
    /\ request.op \in {"/learn", "/learn/bulk"}
         => Len(pushed) + owed(inflight) + Len(request.entries) <= MaxPushes
    /\ request.op = "/predict" =>
         predictor.predictions_made
           + Cardinality({i \in DOMAIN inflight : inflight[i].op = "/predict"})
           < MaxPredictions
    /\ inflight' = Append(inflight, request)
    /\ UNCHANGED <<diary, predictor, argv, cwd, disk, saves, last, pushed, learned, action,
                   category, batch_predictor, csv>>

\* bulk_learn: df['timestamp'] = pd.to_datetime(...); df.sort_values('timestamp')
BulkSort(i) ==
    /\ inflight[i].pc = "sort"
    /\ may_run(inflight, i)
    /\ IF to_datetime_raises(inflight[i].entries)
       THEN Respond(i, "Unknown datetime string format", 0)
       ELSE /\ inflight' = [goes(i, "append") EXCEPT
                                ![i].todo = sort_values(to_datetime(inflight[i].entries))]
            /\ UNCHANGED last
    /\ UNCHANGED <<diary, predictor, argv, cwd, disk, saves, pushed, learned, action, category,
                   batch_predictor, csv>>

\* learn_from_entry: self.memory.append(entry)
LearnAppend(i) ==
    /\ inflight[i].pc = "append"
    /\ may_run(inflight, i)
    /\ predictor' = [predictor EXCEPT
                        !.memory = deque_append(@, predictor.memory_size,
                                                Head(inflight[i].todo))]
    /\ pushed' = Append(pushed, Head(inflight[i].todo))
    /\ inflight' = [goes(i, "scale") EXCEPT ![i].todo = Tail(@)]
    /\ UNCHANGED <<diary, argv, cwd, disk, saves, last, learned, action, category,
                   batch_predictor, csv>>

\* where a learn that returned goes on: the next entry of the batch, the
\* auto-save, or the answer of /learn to a False
LearnReturns(i, returned) ==
    LET t == inflight[i]
        count == t.learned_count + Flag(returned)
    IN  IF t.op = "/learn" /\ ~returned
        THEN Respond(i, "Learning failed", FALSE)
        ELSE /\ inflight' = [goes(i, IF t.todo = << >> THEN "save" ELSE "append")
                                EXCEPT ![i].learned_count = count]
             /\ UNCHANGED last

\* learn_from_entry: extract_features on the last entries of the memory, and
\* the fit of the scaler while nothing has been learned
LearnScale(i) ==
    /\ inflight[i].pc = "scale"
    /\ may_run(inflight, i)
    /\ LET fx == extract_features(last_n(predictor.memory, ContextWindow))
       IN  IF fx.raised # "" \/ fx.target_is_none
           THEN /\ LearnReturns(i, FALSE)
                /\ UNCHANGED predictor
           ELSE /\ predictor' = [predictor EXCEPT
                                   !.scaler = IF predictor.total_entries_learned = 0
                                              THEN scaler_fit(fx.features) ELSE @]
                /\ inflight' = [goes(i, "fit") EXCEPT ![i].fx = fx]
                /\ UNCHANGED last
    /\ UNCHANGED <<diary, argv, cwd, disk, saves, pushed, learned, action, category,
                   batch_predictor, csv>>

\* learn_from_entry: scaler.transform, model.partial_fit, model_trained = True
LearnFit(i) ==
    /\ inflight[i].pc = "fit"
    /\ may_run(inflight, i)
    /\ LET fx     == inflight[i].fx
           scaled == np_abs(scaler_transform(predictor.scaler, fx.features))
       IN  IF ~predictor.scaler.fitted \/ has_nan(fx.features)
           THEN /\ LearnReturns(i, FALSE)
                /\ UNCHANGED predictor
           ELSE /\ predictor' = [predictor EXCEPT
                                   !.model = partial_fit(@, scaled, fx.target_action,
                                                         all_classes),
                                   !.model_trained = TRUE]
                /\ inflight' = goes(i, "count")
                /\ UNCHANGED last
    /\ UNCHANGED <<diary, argv, cwd, disk, saves, pushed, learned, action, category,
                   batch_predictor, csv>>

\* learn_from_entry: self.total_entries_learned += 1; return True
LearnCount(i) ==
    /\ inflight[i].pc = "count"
    /\ may_run(inflight, i)
    /\ predictor' = [predictor EXCEPT !.total_entries_learned = @ + 1]
    /\ learned' = learned + 1
    /\ LearnReturns(i, TRUE)
    /\ UNCHANGED <<diary, argv, cwd, disk, saves, pushed, action, category,
                   batch_predictor, csv>>

\* the auto-save of /learn and /learn/bulk, and their answer
AutoSave(i) ==
    /\ inflight[i].pc = "save"
    /\ may_run(inflight, i)
    /\ \E r \in {save_model(predictor, cwd, disk, [pushed |-> pushed, learned |-> learned])
                    } :
           /\ predictor' = r.self
           /\ disk' = r.files
    /\ Respond(i, "", IF inflight[i].op = "/learn" THEN TRUE
                      ELSE inflight[i].learned_count)
    /\ UNCHANGED <<diary, argv, cwd, saves, pushed, learned, action, category,
                   batch_predictor, csv>>

\* /predict: if not predictor.model_trained: raise HTTPException(503)
PredictCheck(i) ==
    /\ inflight[i].pc = "check"
    /\ may_run(inflight, i)
    /\ IF ~predictor.model_trained
       THEN Respond(i, "Model not trained yet", NoPrediction)
       ELSE /\ inflight' = goes(i, "predict")
            /\ UNCHANGED last
    /\ UNCHANGED <<diary, predictor, argv, cwd, disk, saves, pushed, learned, action, category,
                   batch_predictor, csv>>

\* /predict: recent_entries stays None unless the request holds some
PredictCall(i) ==
    /\ inflight[i].pc = "predict"
    /\ may_run(inflight, i)
    /\ \E r \in {predict_next_entry(predictor, inflight[i].entries # << >>,
                    inflight[i].entries)} :
           /\ predictor' = r.self
           /\ Respond(i, r.raised, r.returned)
    /\ UNCHANGED <<diary, argv, cwd, disk, saves, pushed, learned, action, category,
                   batch_predictor, csv>>

\* /reset
ResetCall(i) ==
    /\ inflight[i].pc = "reset"
    /\ may_run(inflight, i)
    /\ predictor' = reset(predictor)
    /\ pushed' = << >>
    /\ learned' = 0
    /\ Respond(i, "", FALSE)
    /\ UNCHANGED <<diary, argv, cwd, disk, saves, action, category, batch_predictor, csv>>

NextServer ==
    \/ \E request \in Requests : Accept(request)
    \/ \E i \in DOMAIN inflight : BulkSort(i)
    \/ \E i \in DOMAIN inflight : LearnAppend(i)
    \/ \E i \in DOMAIN inflight : LearnScale(i)
    \/ \E i \in DOMAIN inflight : LearnFit(i)
    \/ \E i \in DOMAIN inflight : LearnCount(i)
    \/ \E i \in DOMAIN inflight : AutoSave(i)
    \/ \E i \in DOMAIN inflight : PredictCheck(i)
    \/ \E i \in DOMAIN inflight : PredictCall(i)
    \/ \E i \in DOMAIN inflight : ResetCall(i)

SpecServer == InitOnline /\ [][NextServer]_vars

(***************************************************************************)
(* Batch mode: the RealtimeBehaviorPredictor of services/predictor.py      *)
(* behind api_server.py.  A fitted forest is represented by the rows it    *)
(* was fitted on.                                                          *)
(***************************************************************************)
\* a row of the CSV whose timestamp cell is empty: read_csv yields NaN and
\* pd.to_datetime makes it NaT without raising
row_undated == [timestamp |-> [type |-> "nan", parses |-> TRUE, at |-> 0], action |-> "Duties",
                action_type |-> "str", duration_minutes |-> 30]

\* an entry that is in none of the files
obs_nap == [timestamp |-> [type |-> "str", parses |-> TRUE, at |-> 40], action |-> "nap",
            action_type |-> "str", duration_minutes |-> 20]

\* self.model = None
NoModel == [kind |-> "None", fitted |-> FALSE, trained_on |-> << >>]

\* RandomForestClassifier(...), not fitted yet
RandomForestClassifier ==
    [kind |-> "RandomForestClassifier", fitted |-> FALSE, trained_on |-> << >>]

\* model.fit(X, y, sample_weight=weights)
forest_fit(model, rows) == [model EXCEPT !.fitted = TRUE, !.trained_on = rows]

\* RealtimeBehaviorPredictor() when load_model finds no file
new_batch_predictor ==
    [model_path |-> "models/realtime_behavior_model.pkl",
     model      |-> NoModel,
     encoders   |-> [fitted |-> FALSE, classes_ |-> {}]]

\* df['action'].apply(self.categorize_action) as a set
categories_of(rows) == {category_of(rows[i].action) : i \in 1..Len(rows)}

\* prepare_features(df): the exception it raises, "" if none.  A category the
\* fitted encoder does not know is replaced by 'Unknown', which the encoder
\* does not know either
prepare_raises(self, rows) ==
    IF to_datetime_raises(rows) THEN "Unknown datetime string format"
    ELSE IF \E i \in 1..Len(rows) : rows[i].action_type # "str"
    THEN "AttributeError: no attribute 'lower'"
    ELSE IF self.encoders.fitted /\ ~(categories_of(rows) \subseteq self.encoders.classes_)
    THEN "ValueError: y contains previously unseen labels"
    ELSE ""

\* prepare_features(df): the encoders afterwards
prepare_features(self, rows) ==
    IF self.encoders.fitted THEN self
    ELSE [self EXCEPT !.encoders = [fitted |-> TRUE, classes_ |-> categories_of(rows)]]

\* recency_weight is NaN for a row whose timestamp is NaT, and fit refuses
\* a sample_weight that holds NaN
fit_raises(rows) == \E i \in 1..Len(rows) : rows[i].timestamp.type = "nan"

\* the files data/firestore_data.csv may be
CsvFiles ==
    {[exists |-> FALSE, rows |-> << >>],
     [exists |-> TRUE, rows |-> <<obs_sleep, obs_duties>>],
     [exists |-> TRUE, rows |-> <<obs_sleep, obs_duties, obs_walk>>],
     [exists |-> TRUE, rows |-> <<obs_sleep, obs_garbled>>],
     [exists |-> TRUE, rows |-> <<obs_sleep, row_undated>>]}

\* a request or background task of the batch server
BatchRequest(op, pc, entries) ==
    [op |-> op, pc |-> pc, entries |-> entries, started |-> FALSE, df |-> << >>,
     before |-> NoModel]

\* /learn carries recent_entries and new_entry: entries is recent + [new]
BatchRequests ==
    {BatchRequest("/predict", "predict", recent_entries) :
        recent_entries \in {<< >>, <<obs_duties>>}}
    \cup {BatchRequest("/learn", "learn", <<obs_sleep, obs_nap>>)}
    \cup {BatchRequest("/retrain", "add_task", << >>)}

\* the task of inflight[i] goes on to statement pc
batch_goes(i, pc) ==
    [inflight EXCEPT ![i].pc = pc, ![i].started = TRUE,
                     ![i].before = IF inflight[i].started THEN @
                                   ELSE batch_predictor.model]

InitBatch ==
    /\ batch_predictor = new_batch_predictor
    /\ csv \in CsvFiles
    /\ inflight = << >>
    /\ cwd = PackageDir
    /\ predictor = new_predictor(DefaultModelPath, CHOOSE n \in MemorySizes : TRUE)
    /\ argv = [model_path |-> predictor.model_path, memory_size |-> predictor.memory_size]
    /\ disk = {}
    /\ saves = 0
    /\ last = Call("startup_event", << >>, FALSE, "", FALSE)
    /\ diary_service = new_diary_service
    /\ now = Started
    /\ pushed = << >>
    /\ learned = 0
    /\ action = ""
    /\ category = ""

AcceptBatch(request) ==
    /\ Len(inflight) < MaxRequests
    /\ inflight' = Append(inflight, request)
    /\ UNCHANGED <<diary, predictor, argv, cwd, disk, saves, last, pushed, learned, action,
                   category, batch_predictor, csv>>

\* the export that rewrites data/firestore_data.csv
Export(file) ==
    /\ file # csv
    /\ csv' = file
    /\ UNCHANGED <<diary, predictor, argv, cwd, disk, saves, last, pushed, learned, action,
                   category, batch_predictor, inflight>>

\* /predict of api_server.py, with predictor.predict_next_entry
BatchPredict(i) ==
    /\ inflight[i].pc = "predict"
    /\ may_run(inflight, i)
    /\ LET self    == batch_predictor
           entries == inflight[i].entries
           raised  == prepare_raises(self, entries)
       IN  IF self.model.kind = "None" THEN Respond(i, "503 Model not loaded", NoModel)
           ELSE IF entries = << >> THEN Respond(i, "400 No recent entries provided", NoModel)
           ELSE IF raised # "" THEN Respond(i, raised, NoModel)
           ELSE IF ~self.model.fitted THEN Respond(i, "NotFittedError", self.model)
           ELSE Respond(i, "", self.model)
    /\ UNCHANGED <<diary, predictor, argv, cwd, disk, saves, pushed, learned, action, category,
                   batch_predictor, csv>>

\* /learn of api_server.py, with predictor.learn_from_entry: the features
\* are prepared and True is returned
BatchLearn(i) ==
    /\ inflight[i].pc = "learn"
    /\ may_run(inflight, i)
    /\ LET self   == batch_predictor
           raised == prepare_raises(self, inflight[i].entries)
       IN  IF self.model.kind = "None" THEN Respond(i, "503 Model not loaded", FALSE)
           ELSE IF raised # "" THEN Respond(i, raised, FALSE)
           ELSE Respond(i, "", TRUE)
    /\ UNCHANGED <<diary, predictor, argv, cwd, disk, saves, pushed, learned, action, category,
                   batch_predictor, csv>>

\* /retrain: background_tasks.add_task(train_model_background) and the
\* answer; the task runs on the event loop once the answer is sent
RetrainCall(i) ==
    /\ inflight[i].pc = "add_task"
    /\ may_run(inflight, i)
    /\ inflight' = [inflight EXCEPT
                       ![i] = BatchRequest("train_model_background", "read_csv", << >>)]
    /\ last' = Call("/retrain", << >>, FALSE, "", TRUE)
    /\ UNCHANGED <<diary, predictor, argv, cwd, disk, saves, pushed, learned, action, category,
                   batch_predictor, csv>>

\* train_model_background ends: except Exception as e: print(...)
TrainEnds(i, raised) ==
    /\ inflight' = RemoveAt(inflight, i)
    /\ last' = Call("train_model_background", inflight[i].df, FALSE, raised, raised = "")

\* train_model: df = pd.read_csv(csv_file_path)
TrainReadCsv(i) ==
    /\ inflight[i].pc = "read_csv"
    /\ may_run(inflight, i)
    /\ IF ~csv.exists
       THEN TrainEnds(i, "FileNotFoundError")
       ELSE /\ inflight' = [batch_goes(i, "prepare_features") EXCEPT ![i].df = csv.rows]
            /\ UNCHANGED last
    /\ UNCHANGED <<diary, predictor, argv, cwd, disk, saves, pushed, learned, action, category,
                   batch_predictor, csv>>

\* train_model: X, y, weights = self.prepare_features(df)
TrainPrepare(i) ==
    /\ inflight[i].pc = "prepare_features"
    /\ may_run(inflight, i)
    /\ LET raised == prepare_raises(batch_predictor, inflight[i].df)
       IN  IF raised # ""
           THEN /\ TrainEnds(i, raised)
                /\ UNCHANGED batch_predictor
           ELSE /\ batch_predictor' = prepare_features(batch_predictor, inflight[i].df)
                /\ inflight' = batch_goes(i, "install")
                /\ UNCHANGED last
    /\ UNCHANGED <<diary, predictor, argv, cwd, disk, saves, pushed, learned, action, category,
                   csv>>

\* train_model: self.model = RandomForestClassifier(...)
TrainInstall(i) ==
    /\ inflight[i].pc = "install"
    /\ may_run(inflight, i)
    /\ batch_predictor' = [batch_predictor EXCEPT !.model = RandomForestClassifier]
    /\ inflight' = batch_goes(i, "fit")
    /\ UNCHANGED <<diary, predictor, argv, cwd, disk, saves, last, pushed, learned, action,
                   category, csv>>

\* train_model: self.model.fit(X, y, sample_weight=weights)
TrainFit(i) ==
    /\ inflight[i].pc = "fit"
    /\ may_run(inflight, i)
    /\ IF fit_raises(inflight[i].df)
       THEN /\ TrainEnds(i, "ValueError: Input sample_weight contains NaN")
            /\ UNCHANGED batch_predictor
       ELSE /\ batch_predictor' = [batch_predictor EXCEPT
                                      !.model = forest_fit(@, inflight[i].df)]
            /\ inflight' = batch_goes(i, "save_model")
            /\ UNCHANGED last
    /\ UNCHANGED <<diary, predictor, argv, cwd, disk, saves, pushed, learned, action, category,
                   csv>>

\* train_model: self.save_model(); return accuracy
TrainSave(i) ==
    /\ inflight[i].pc = "save_model"
    /\ may_run(inflight, i)
    /\ LET model_path == saved_path(batch_predictor.model_path)
           file == [path |-> abspath(cwd, model_path),
                    blob |-> [model |-> batch_predictor.model,
                              encoders |-> batch_predictor.encoders]]
       IN  /\ batch_predictor' = [batch_predictor EXCEPT !.model_path = model_path]
           /\ disk' = {f \in disk : f.path # file.path} \cup {file}
    /\ TrainEnds(i, "")
    /\ UNCHANGED <<diary, predictor, argv, cwd, saves, pushed, learned, action, category, csv>>

NextBatch ==
    \/ \E request \in BatchRequests : AcceptBatch(request)
    \/ \E file \in CsvFiles : Export(file)
    \/ \E i \in DOMAIN inflight : BatchPredict(i)
    \/ \E i \in DOMAIN inflight : BatchLearn(i)
    \/ \E i \in DOMAIN inflight : RetrainCall(i)
    \/ \E i \in DOMAIN inflight : TrainReadCsv(i)
    \/ \E i \in DOMAIN inflight : TrainPrepare(i)
    \/ \E i \in DOMAIN inflight : TrainInstall(i)
    \/ \E i \in DOMAIN inflight : TrainFit(i)
    \/ \E i \in DOMAIN inflight : TrainSave(i)

SpecBatch == InitBatch /\ [][NextBatch]_vars

(***************************************************************************)
(* extract_features alone, on windows of up to three entries in any order.  *)
(***************************************************************************)
MaxWindow == 3

Windows == ListsUpTo({obs_sleep, obs_duties, obs_walk, obs_no_action, obs_garbled},
                     MaxWindow)

\* features, target_action = self.extract_features(entries)
Extract(entries) ==
    /\ \E fx \in {extract_features(entries)} :
           last' = Call("extract_features", entries, TRUE, fx.raised,
                        [features |-> fx.features, target_action |-> fx.target_action,
                         target_is_none |-> fx.target_is_none])
    /\ UNCHANGED <<diary, served, argv, predictor, cwd, disk, saves, pushed, learned, action,
                   category>>

NextExtract == \E entries \in Windows : Extract(entries)

SpecExtract == InitOnline /\ [][NextExtract]_vars

(***************************************************************************)
(* categorize_action alone, on the listed keywords, on texts that embed    *)
(* them, and on other texts.                                               *)
(***************************************************************************)
Keywords == UNION {{action_categories[i].keywords[k] :
                        k \in 1..Len(action_categories[i].keywords)} :
                   i \in 1..Len(action_categories)}

ActionTexts ==
    Keywords
    \cup {"Long " \o k \o " today" : k \in Keywords}
    \cup {"", "SLEEP", "NAP", "hOmEwOrK", "GYM session", "Meditate real", "walk the dog",
          "Reading", "lunch", "Job Search", "FUN", "Internship 2026", "restaurant",
          "wor", "k", "Office Meeting", "classroom", "Family dinner"}

InitCat ==
    /\ action \in ActionTexts
    /\ category = ""
    /\ cwd = PackageDir
    /\ predictor = new_predictor(DefaultModelPath, CHOOSE n \in MemorySizes : TRUE)
    /\ argv = [model_path |-> predictor.model_path, memory_size |-> predictor.memory_size]
    /\ disk = {}
    /\ saves = 0
    /\ last = Call("__init__", << >>, FALSE, "", FALSE)
    /\ diary_service = new_diary_service
    /\ now = Started
    /\ pushed = << >>
    /\ learned = 0
    /\ inflight = << >>
    /\ batch_predictor = "None"
    /\ csv = << >>

Categorize ==
    /\ category = ""
    /\ category' = categorize_action(action)
    /\ UNCHANGED <<diary, served, argv, predictor, cwd, disk, saves, last, pushed, learned, action>>

NextCat == Categorize

SpecCat == InitCat /\ [][NextCat]_vars

(***************************************************************************)
(* Properties.                                                             *)
(***************************************************************************)
NotTrainedError == "Model not trained yet!"

\* Empty: no learn call has returned True since the construction from
\* nothing or since the last reset
Empty == learned = 0

\* C1: on an Empty engine predict raises the model-not-trained error, with
\* or without a window, and the failed call leaves the predictor (memory,
\* both counters, trained flag, scaler, classifier) as it was.
C1_PredictOnEmptyRaises ==
    [][(Empty /\ last'.op = "predict_next_entry")
          => (last'.raised = NotTrainedError /\ predictor' = predictor)]_vars

\* C1 witness: predict with a window was refused on an engine that has
\* never learned although a rejected observation sits in its memory.
C1_Witness ==
    /\ last.op = "predict_next_entry"
    /\ last.given
    /\ last.raised = NotTrainedError
    /\ Empty
    /\ predictor.memory # << >>

\* C2: the trained flag is set exactly by the first learn that returns True
\* (it equals "some learn has returned True since the last reset"), and no
\* call other than reset takes it from true to false: not a learn that
\* returns False, not bulk_learn, predict, get_stats or save_model.
C2_TrainedSticky ==
    [][/\ last'.op # "__init__" => (predictor'.model_trained <=> learned' > 0)
       /\ (last'.op \notin {"reset", "__init__"} /\ predictor.model_trained)
             => predictor'.model_trained]_vars

\* C2 witness: a learn call returned False on a trained engine, which is
\* still trained.
C2_Witness ==
    /\ last.op = "learn_from_entry"
    /\ last.returned = FALSE
    /\ learned > 0
    /\ predictor.model_trained

\* C3: after reset(), from whatever state, get_stats() reports
\* total_entries_learned = 0, predictions_made = 0, model_trained = false
\* and memory_size = 0.
C3_ResetThenStats ==
    [][last'.op = "reset"
          => LET stats == get_stats(predictor')
             IN  /\ stats.total_entries_learned = 0
                 /\ stats.predictions_made = 0
                 /\ stats.model_trained = FALSE
                 /\ stats.memory_size = 0]_vars

\* C3 witness: reset has run in a process that had learned and saved a
\* trained model (its model_path was made absolute by save_model), and the
\* statistics are back to zero.
C3_Witness ==
    /\ last.op = "reset"
    /\ \E f \in disk : f.blob.model_trained /\ f.blob.memory # << >>
                       /\ f.path = predictor.model_path
    /\ get_stats(predictor).total_entries_learned = 0
    /\ get_stats(predictor).memory_size = 0

\* position of x in the sequence s
Position(s, x) == CHOOSE i \in 1..Len(s) : s[i] = x

\* entries in ascending order of timestamp, entries of one timestamp in the
\* order given
sorted_ascending(entries) ==
    CHOOSE s \in Orderings({entries[i] : i \in 1..Len(entries)}) :
        /\ Len(s) = Len(entries)
        /\ \A i, j \in 1..Len(s) :
              i < j => \/ s[i].timestamp.at < s[j].timestamp.at
                       \/ /\ s[i].timestamp.at = s[j].timestamp.at
                          /\ Position(entries, s[i]) < Position(entries, s[j])

\* learn called on each entry, one by one
RECURSIVE learn_one_by_one(_, _)
learn_one_by_one(self, entries) ==
    IF entries = << >> THEN self
    ELSE learn_one_by_one(learn_from_entry(self, Head(entries)).self, Tail(entries))

\* the same observation, whatever type holds its timestamp
SameObservation(a, b) ==
    /\ a.action = b.action
    /\ a.duration_minutes = b.duration_minutes
    /\ a.timestamp.parses = b.timestamp.parses
    /\ a.timestamp.at = b.timestamp.at

SameObservations(s, t) ==
    /\ Len(s) = Len(t)
    /\ \A i \in 1..Len(s) : SameObservation(s[i], t[i])

\* the same Model State: memory contents and order, counters, scaler, classifier
SameModelState(p, q) ==
    /\ SameObservations(p.memory, q.memory)
    /\ [p EXCEPT !.memory = << >>] = [q EXCEPT !.memory = << >>]

\* the timestamps that parse are in ascending order
AscendingByTimestamp(s) ==
    \A i, j \in 1..Len(s) :
        (i < j /\ s[i].timestamp.parses /\ s[j].timestamp.parses)
            => s[i].timestamp.at <= s[j].timestamp.at

\* C4: for every list of observations and every starting state, bulk_learn
\* leaves the predictor in the Model State (memory contents and order,
\* counters, scaler, classifier) that calling learn on each observation of
\* the list, taken in ascending order of timestamp, leaves it in.
C4_BulkEqualsSequential ==
    [][last'.op = "bulk_learn"
          => \E s \in Orderings({last'.entries[i] : i \in 1..Len(last'.entries)}) :
                /\ Len(s) = Len(last'.entries)
                /\ AscendingByTimestamp(s)
                /\ SameModelState(predictor', learn_one_by_one(predictor, s))]_vars

\* C5: bulk_learn on an Empty engine with n >= 1 well-formed
\* observations in any order, n within the capacity, returns n, leaves
\* total_entries_learned = n and the memory holding them in ascending order
\* of timestamp.
C5_BulkOnEmpty ==
    [][(/\ Empty
        /\ last'.op = "bulk_learn"
        /\ last'.entries # << >>
        /\ \A i \in 1..Len(last'.entries) : last'.entries[i] \in WellFormed
        /\ Len(last'.entries) <= predictor.memory_size)
          => (/\ last'.raised = ""
              /\ last'.returned = Len(last'.entries)
              /\ predictor'.total_entries_learned = Len(last'.entries)
              /\ SameObservations(predictor'.memory,
                                  sorted_ascending(last'.entries)))]_vars

Succeeded(op) == last.op = op /\ last.raised = ""

\* C7: a successful predict returns min(3, number of categories) top
\* predictions, in non-increasing order of probability.
C7_TopThreeDescending ==
    Succeeded("predict_next_entry")
      => LET top == last.returned.top_predictions
         IN  /\ Len(top) = (IF Len(all_classes) < 3 THEN Len(all_classes) ELSE 3)
             /\ \A i, j \in 1..Len(top) : i < j => ~lt(top[i][2], top[j][2])

\* C7 witness: a prediction made after a single category has been learned
\* lists three categories, two of them of probability zero.
C7_Witness ==
    /\ Succeeded("predict_next_entry")
    /\ predictor.total_entries_learned = 1
    /\ Len(last.returned.top_predictions) = 3
    /\ ~last.returned.top_predictions[1][2].neg_inf
    /\ last.returned.top_predictions[2][2].neg_inf

\* C8 as claimed: categories of equal probability are listed in the order
\* of the category set (Sleep, Work, Study, ..., Career, Other).
C8_TiesInCategorySetOrder ==
    Succeeded("predict_next_entry")
      => LET top == last.returned.top_predictions
         IN  \A i, j \in 1..Len(top) :
                (i < j /\ top[i][2] = top[j][2])
                   => Position(all_classes, top[i][1]) < Position(all_classes, top[j][1])

\* C8 amended: categories of equal probability are listed in the order of
\* the classifier's classes_, the category names in ascending order
\* (Career, Entertainment, Exercise, ..., Study, Work).
C8_TiesInClassesOrder ==
    Succeeded("predict_next_entry")
      => LET top == last.returned.top_predictions
         IN  \A i, j \in 1..Len(top) :
                (i < j /\ top[i][2] = top[j][2]) => str_lt(top[i][1], top[j][1])

\* C8 witness: a prediction whose second and third categories tie.
C8_Witness ==
    /\ Succeeded("predict_next_entry")
    /\ last.returned.top_predictions[2][2] = last.returned.top_predictions[3][2]
    /\ last.returned.top_predictions[2][1] = "Career"
    /\ last.returned.top_predictions[3][1] = "Entertainment"

\* keyword occurs in a at offset pos, letter case ignored
OccursAt(keyword, a, pos) ==
    /\ pos + Len(keyword) <= Len(a)
    /\ \A c \in 1..Len(keyword) :
          char_lower(CharAt(keyword, c)) = char_lower(CharAt(a, pos + c))

\* some keyword of the i-th category is a case-insensitive substring of a
CategoryMatches(i, a) ==
    \E k \in 1..Len(action_categories[i].keywords) :
        \E pos \in 0..Len(a) : OccursAt(action_categories[i].keywords[k], a, pos)

\* C9: categorize returns, for every action string, exactly one category:
\* the first category in priority order one of whose keywords is a
\* case-insensitive substring of the action, and Other when none matches.
C9_FirstMatchOrOther ==
    category # ""
      => /\ \E c \in 1..Len(all_classes) : category = all_classes[c]
         /\ IF \E i \in 1..Len(action_categories) : CategoryMatches(i, action)
            THEN LET first == CHOOSE i \in 1..Len(action_categories) :
                                 /\ CategoryMatches(i, action)
                                 /\ \A j \in 1..(i - 1) : ~CategoryMatches(j, action)
                 IN  category = action_categories[first].category
            ELSE category = "Other"

\* C9 witness: an action in mixed case that matches keywords of two
\* categories has been given the first of them.
C9_Witness ==
    /\ action = "hOmEwOrK"
    /\ CategoryMatches(2, action)
    /\ CategoryMatches(3, action)
    /\ category = "Work"

\* C10: every keyword listed under a category, passed verbatim as the
\* action, is categorized as the category that lists it.
C10_KeywordMapsBack ==
    category # ""
      => \A i \in 1..Len(action_categories) :
            (\E k \in 1..Len(action_categories[i].keywords) :
                 action = action_categories[i].keywords[k])
               => category = action_categories[i].category

\* the last call was a learn that returned True
LearnReturnedTrue == last.op = "learn_from_entry" /\ last.returned = TRUE

\* C11: after k >= 1 learn calls that each returned true on an Empty
\* engine, predict() with no window succeeds, reports total_learned = k and
\* a predicted_action of the fixed category set.
C11_PredictAfterLearns ==
    [][(LearnReturnedTrue /\ last'.op = "predict_next_entry" /\ ~last'.given)
          => (/\ last'.raised = ""
              /\ last'.returned.total_learned = learned
              /\ learned >= 1
              /\ in_all_classes(last'.returned.predicted_action))]_vars

\* C11 witness: Sleep at T0 and Duties at T0 + 8h were learned, both with
\* success, and predict() answered with total_learned = 2.
C11_Witness ==
    /\ Succeeded("predict_next_entry")
    /\ ~last.given
    /\ pushed = <<obs_sleep, obs_duties>>
    /\ learned = 2
    /\ last.returned.total_learned = 2
    /\ in_all_classes(last.returned.predicted_action)

\* C12: learn never raises: for every observation (no action, unparseable
\* timestamp, action that is not a string included) it returns a boolean,
\* False when feature extraction fails, and the learned-count grows by
\* exactly 1 when it returns True and is unchanged when it returns False.
C12_LearnNeverRaises ==
    [][last'.op = "learn_from_entry"
          => (/\ last'.raised = ""
              /\ last'.returned \in BOOLEAN
              /\ extract_features(last_n(predictor'.memory, ContextWindow)).raised # ""
                    => last'.returned = FALSE
              /\ predictor'.total_entries_learned
                    = predictor.total_entries_learned + Flag(last'.returned))]_vars

\* C12 witness: after one entry was learned, learn was given an entry whose
\* action is a number; it returned False and the count stayed 1.
C12_Witness ==
    /\ last.op = "learn_from_entry"
    /\ last.entries = <<obs_number>>
    /\ last.raised = ""
    /\ last.returned = FALSE
    /\ learned = 1
    /\ predictor.total_entries_learned = 1

\* the Model State of an engine: classifier, scaler, memory, counters, flag
ModelStateOf(self) ==
    [model                 |-> self.model,
     scaler                |-> self.scaler,
     memory                |-> self.memory,
     total_entries_learned |-> self.total_entries_learned,
     predictions_made      |-> self.predictions_made,
     model_trained         |-> self.model_trained]

\* C13: for every Trained engine and every model path, absolute or
\* relative, save() followed by the construction of a fresh engine with the
\* same model path and capacity (here: in the same working directory) gives
\* an engine with the saved Model State, whose predict on the same window
\* returns the same category, confidence and top three.
C13_SaveLoadRoundTrip ==
    [][(/\ last.op = "save_model"
        /\ predictor.model_trained
        /\ last'.op = "__init__"
        /\ argv' = argv
        /\ cwd' = cwd)
          => (/\ ModelStateOf(predictor') = ModelStateOf(predictor)
              /\ predict_next_entry(predictor', TRUE, <<obs_duties>>).returned
                    = predict_next_entry(predictor, TRUE, <<obs_duties>>).returned)]_vars

\* C14: constructing an engine with a model path at which no blob has been
\* saved never fails and leaves the engine Empty (not trained, both counters
\* 0, memory empty), whatever other blobs exist elsewhere.
C14_NoBlobStartsEmpty ==
    [][(/\ last'.op = "__init__"
        /\ ~exists(disk, cwd', argv'.model_path)
        /\ ~exists(disk, cwd', saved_path(argv'.model_path)))
          => (/\ last'.raised = ""
              /\ ~predictor'.model_trained
              /\ predictor'.total_entries_learned = 0
              /\ predictor'.predictions_made = 0
              /\ predictor'.memory = << >>)]_vars

\* the entries of a list whose timestamp parses
Parseable(entries) == SelectSeq(entries, LAMBDA e : e.timestamp.parses)

\* C15: bulk_learn isolates the failure of an observation: when some
\* timestamps of the list do not parse, those observations are skipped,
\* every other observation of the list is still learned, and bulk_learn
\* returns the number learned instead of raising.
C15_BulkIsolatesFailures ==
    [][(last'.op = "bulk_learn" /\ Parseable(last'.entries) # last'.entries)
          => (/\ last'.raised = ""
              /\ last'.returned
                    = predictor'.total_entries_learned - predictor.total_entries_learned
              /\ predictor.memory = << >>
                    => last'.returned = Len(Parseable(last'.entries)))]_vars

\* a /learn or /learn/bulk handler that has begun and has not returned
LearnInProgress(t) == t.started /\ t.op \in {"/learn", "/learn/bulk"}

\* the step answers request i
Answered(i) == inflight' = RemoveAt(inflight, i)

\* the step is one of the handler of request i
StepOf(i) ==
    \/ Answered(i)
    \/ Len(inflight') = Len(inflight) /\ inflight'[i] # inflight[i]

\* the predictor the handler of t found when it began
Before(t) == IF t.started THEN t.before ELSE predictor

\* C16: under every interleaving of accepted /learn, /learn/bulk, /predict
\* and /reset requests, no step of a learn or of a predict is taken while
\* another learn is in progress, and every answered request has had the
\* effect of its engine call applied in one piece to the Model State its
\* handler found when it began.
C16_HandlersAreCriticalSections ==
    [][\A i \in DOMAIN inflight :
        LET t == inflight[i]
            b == Before(t)
        IN  /\ (StepOf(i) /\ t.op \in {"/learn", "/learn/bulk", "/predict"})
                 => \A j \in DOMAIN inflight \ {i} : ~LearnInProgress(inflight[j])
            /\ (Answered(i) /\ t.op = "/learn")
                 => LET r == learn_from_entry(b, t.entries[1])
                    IN  /\ ModelStateOf(predictor') = ModelStateOf(r.self)
                        /\ last'.returned = r.returned
            /\ (Answered(i) /\ t.op = "/learn/bulk")
                 => LET r == bulk_learn(b, t.entries)
                    IN  /\ ModelStateOf(predictor') = ModelStateOf(r.self)
                        /\ last'.returned = r.returned
            /\ (Answered(i) /\ t.op = "/predict" /\ b.model_trained)
                 => LET r == predict_next_entry(b, t.entries # << >>, t.entries)
                    IN  /\ ModelStateOf(predictor') = ModelStateOf(r.self)
                        /\ last'.raised = r.raised
                        /\ last'.returned = r.returned]_vars

\* a /predict waits while a /learn is between its push and its update of the
\* classifier, on a model that an earlier /learn trained
C16_Witness ==
    /\ predictor.model_trained
    /\ learned = 1
    /\ Len(pushed) = 2
    /\ \E i, j \in DOMAIN inflight :
        /\ inflight[i].op = "/learn" /\ inflight[i].pc = "fit"
        /\ inflight[j].op = "/predict" /\ ~inflight[j].started

\* the model that was in place when the task t began
ModelBefore(t) == IF t.started THEN t.before ELSE batch_predictor.model

\* a model a predict may see: none, or a fitted one
Complete(model) == model.kind = "None" \/ model.fitted

\* C17: in batch mode every /predict finds either no model or a completely
\* fitted one (the previous or the new), never one that was installed and
\* not fitted, and a retrain that fails leaves the model that was in place
\* when it began.
C17_RetrainPublishesAtomically ==
    [][\A i \in DOMAIN inflight :
        LET t == inflight[i]
        IN  /\ (Answered(i) /\ t.op = "/predict") => Complete(batch_predictor.model)
            /\ (Answered(i) /\ t.op = "train_model_background" /\ last'.raised # "")
                 => batch_predictor'.model = ModelBefore(t)]_vars

\* C20: in batch mode a /learn that succeeds leaves the classifier as it was
\* and records its new entry in the data that train_model reads, so that
\* the next retrain is fitted on it.
C20_BatchLearnRecords ==
    [][\A i \in DOMAIN inflight :
        (Answered(i) /\ inflight[i].op = "/learn" /\ last'.raised = "")
            => /\ batch_predictor'.model = batch_predictor.model
               /\ \E k \in 1..Len(csv'.rows) :
                    csv'.rows[k] = inflight[i].entries[Len(inflight[i].entries)]]_vars

Min(a, b) == IF a < b THEN a ELSE b

\* the last min(10, memory_size) entries of the memory buffer
buffer_tail(self) ==
    LET k == Min(10, self.memory_size)
        n == Len(self.memory)
    IN  SubSeq(self.memory, IF n > k THEN n - k + 1 ELSE 1, n)

window_ending_at_last(memory) ==
    LET window == last_n(memory, ContextWindow)
    IN  Append(sort_values(SubSeq(window, 1, Len(window) - 1)), window[Len(window)])

\* C21: a learn(o) that returns True updates the classifier with the target
\* categorize(o.action) and with the features of the window that ends at o
\* (o as the current observation), also when o is earlier in time than
\* observations the memory already holds.
C21_LearnsFromTheNewObservation ==
    [][(last'.op = "learn_from_entry" /\ last'.returned = TRUE)
          => LET o == last'.entries[1]
                 X == np_abs(scaler_transform(
                                predictor'.scaler,
                                features_of(window_ending_at_last(predictor'.memory))))
             IN  predictor'.model
                    = partial_fit(predictor.model, X, category_of(o.action),
                                  all_classes)]_vars

\* positions of the previous-observation fields in the feature vector
PrevDuration == 12
PrevHour == 13
TimeGap == 14
\* the one-hot block of the previous category follows the fourteen scalars
Scalars == 14

\* the last call was an extract_features that returned, on a window of one entry
ExtractedFromOne ==
    /\ last.op = "extract_features"
    /\ last.raised = ""
    /\ Len(last.entries) = 1

PrevFieldsZero(features) ==
    /\ features[PrevDuration] = 0
    /\ features[PrevHour] = 0
    /\ features[TimeGap] = 0

\* C22 as claimed: for a window of length 1 the previous-observation fields
\* are 0 and no category of the previous-category one-hot block is flagged,
\* not even Other.
C22_LoneEntryFlagsNoCategory ==
    ExtractedFromOne
      => /\ Len(last.returned.features) = Scalars + Len(all_classes)
         /\ PrevFieldsZero(last.returned.features)
         /\ \A c \in 1..Len(all_classes) : last.returned.features[Scalars + c] = 0

\* C22 amended: for a window of length 1 the previous-observation fields are
\* 0 and the previous-category one-hot block flags exactly Other, as it does
\* for a previous observation that is categorized Other.
C22_LoneEntryFlagsOther ==
    ExtractedFromOne
      => /\ Len(last.returned.features) = Scalars + Len(all_classes)
         /\ PrevFieldsZero(last.returned.features)
         /\ \A c \in 1..Len(all_classes) :
               last.returned.features[Scalars + c] = Flag(all_classes[c] = "Other")
         /\ SubSeq(last.returned.features, Scalars + 1, Scalars + Len(all_classes))
               = SubSeq(extract_features(<<obs_walk, obs_nap>>).features,
                        Scalars + 1, Scalars + Len(all_classes))

\* C22 witness: the features of the lone Sleep entry have been extracted,
\* with target Sleep, previous fields 0 and Other flagged.
C22_Witness ==
    /\ ExtractedFromOne
    /\ last.entries = <<obs_sleep>>
    /\ last.returned.target_action = "Sleep"
    /\ PrevFieldsZero(last.returned.features)
    /\ last.returned.features[Scalars + Len(all_classes)] = 1

\* the vector the classifier is handed for a window: np.abs(scaler.transform(features))
features_scaled(scaler, window) ==
    np_abs(scaler_transform(scaler, extract_features(window).features))

\* every component lies in the scaler's feature_range (0, 1)
InFeatureRange(X) == \A i \in 1..Len(X) : 0 <= X[i] /\ X[i] <= 1

\* C23: every feature vector handed to the classifier, by a learn that
\* succeeds and by a predict that succeeds, has all its components in [0, 1],
\* whatever observations came first.
C23_ScaledIntoUnitRange ==
    [][/\ (last'.op = "learn_from_entry" /\ last'.returned = TRUE)
            => InFeatureRange(features_scaled(predictor'.scaler,
                                              last_n(predictor'.memory, ContextWindow)))
       /\ (last'.op = "predict_next_entry" /\ last'.raised = "")
            => InFeatureRange(features_scaled(predictor.scaler,
                                              IF last'.given THEN last'.entries
                                              ELSE last_n(predictor.memory,
                                                          ContextWindow)))]_vars

\* the predictor apart from its count of predictions
WithoutPredictionsMade(self) == [self EXCEPT !.predictions_made = 0]

\* C24: a predict call changes nothing of the Model State but the
\* predictions-made counter (memory, classifier, scaler, learned-count and
\* trained flag stay); the counter grows by exactly 1 when predict succeeds,
\* the returned predictions_made is the new value, and the counter stays
\* when predict fails.
C24_PredictOnlyCounts ==
    [][last'.op = "predict_next_entry"
          => /\ WithoutPredictionsMade(predictor') = WithoutPredictionsMade(predictor)
             /\ last'.raised = ""
                  => /\ predictor'.predictions_made = predictor.predictions_made + 1
                     /\ last'.returned.predictions_made = predictor'.predictions_made
             /\ last'.raised # ""
                  => predictor'.predictions_made = predictor.predictions_made]_vars

\* C24 witness: the first prediction of a trained engine was made from its
\* memory of two entries and reports predictions_made = 1.
C24_Witness ==
    /\ Succeeded("predict_next_entry")
    /\ ~last.given
    /\ Len(predictor.memory) = 2
    /\ predictor.model_trained
    /\ predictor.predictions_made = 1
    /\ last.returned.predictions_made = 1

\* C25: after any sequence of learn and bulk_learn calls the memory buffer,
\* and so the window of its last entries that serves as context, is in
\* ascending order of timestamp, also when observations were learned out of
\* chronological order or in several batches.
C25_BufferAscending ==
    /\ AscendingByTimestamp(predictor.memory)
    /\ AscendingByTimestamp(last_n(predictor.memory, ContextWindow))

\* C27: in every state reached by learn, bulk_learn, predict, reset, save
\* and construction with load, the trained flag is true exactly when the
\* learned-count is at least 1.
C27_TrainedIffLearned ==
    predictor.model_trained <=> predictor.total_entries_learned >= 1

\* C27 witness: a process constructed its engine from the blob another left,
\* and the engine is trained with a learned-count of 1.
C27_Witness ==
    /\ last.op = "__init__"
    /\ last.returned = TRUE
    /\ predictor.model_trained
    /\ predictor.total_entries_learned = 1
    /\ get_stats(predictor).model_trained

NoEntriesError == "No entries in memory to base prediction on"

\* trained, and nothing in the memory
TrainedWithoutMemory(self) == self.model_trained /\ self.memory = << >>

\* some blob holds a trained model and an empty memory
BlobWithoutMemory(files) == \E f \in files : TrainedWithoutMemory(f.blob)

OwnBlobs == {f \in disk : f.path = abspath(cwd, saved_path(argv.model_path))}

\* C30: reset() leaves every persisted blob as it is, so an engine
\* constructed after a reset, with no save in between, holds the Model State
\* of the last save before the reset (Trained, its counters, its memory),
\* not the Empty state.
C30_ResetLeavesBlobs ==
    [][/\ last'.op = "reset" => disk' = disk
       /\ (last.op = "reset" /\ last'.op = "__init__" /\ argv' = argv /\ cwd' = cwd)
            => /\ disk' = disk
               /\ \A f \in OwnBlobs : ModelStateOf(predictor') = f.blob
               /\ OwnBlobs = {} => ModelStateOf(predictor') = ModelStateOf(reset(predictor))]_vars

\* C30 witness: reset has run in a process whose blob holds a trained model;
\* the engine is Empty, the blob is still there, and the engine a new process
\* constructs from it is Trained with the old count and memory.
C30_Witness ==
    /\ last.op = "reset"
    /\ ~predictor.model_trained
    /\ predictor.memory = << >>
    /\ \E f \in OwnBlobs : f.blob.model_trained
    /\ LET loaded == construct(argv.model_path, argv.memory_size, cwd, disk).self
       IN  /\ loaded.model_trained
           /\ loaded.total_entries_learned = 1
           /\ loaded.memory = <<obs_sleep>>

\* the Model State apart from the memory buffer
WithoutMemory(self) == [ModelStateOf(self) EXCEPT !.memory = << >>]

\* C29: a learn call that returns False changes no part of the Model State
\* other than the memory buffer (learned-count, trained flag, classifier and
\* scaler stay as they were), and the rejected observation is in the buffer
\* as a push leaves it, the oldest entry evicted if the buffer was full.
C29_FailedLearnOnlyPushes ==
    [][(last'.op = "learn_from_entry" /\ last'.returned = FALSE)
          => /\ WithoutMemory(predictor') = WithoutMemory(predictor)
             /\ predictor'.memory = deque_append(predictor.memory, predictor.memory_size,
                                                 last'.entries[1])]_vars

\* the entries a fresh read of Firestore would find for the key
available(user_id, days) == Len(stream(user_id, days, 0))

\* C26: for any key and under any interleaving of calls with other keys,
\* get_diary_entries_optimized returns no entry that was read from Firestore
\* more than cache_ttl seconds before the call, and a call answered from the
\* cache returns min(max_entries, available) entries for its own max_entries.
C26_CacheHonoursTtlPerKey ==
    last.op = "get_diary_entries_optimized" =>
        /\ \A i \in DOMAIN last.returned :
              last.at - last.returned[i].read_at <= cache_ttl
        /\ last.cached =>
              Len(last.returned)
                 = IF last.max_entries <= available(last.user_id, last.days)
                   THEN last.max_entries
                   ELSE available(last.user_id, last.days)

====
